---------------------------- MODULE Spec2Model ----------------------------
(***************************************************************************)
(* A model of qpath2: the sliding-window image explorer                    *)
(* (qpath2/core.py, class MRISlidingWindow).                               *)
(*                                                                         *)
(* The explorer precomputes the top-left corners of all the windows of a   *)
(* given size that fit in an image, and keeps a position index _k into     *)
(* that list.  reset/here/last/next/prev are its operations.  The code is   *)
(* Python 2: zip() returns a list, of which total_steps() is the length.   *)
(***************************************************************************)
EXTENDS Integers, Sequences, FiniteSets, TLC

(***************************************************************************)
(* Bounds of the model.                                                    *)
(***************************************************************************)
\* image height and width range over 1..MaxDim
MaxDim == 4
\* window width and height range over 1..MaxWin
MaxWin == 3
\* start offsets range over 0..MaxStart
MaxStart == 1
\* steps range over {-1} \cup 1..MaxStep (the constructor does not check them)
MaxStep == 2
\* next() calls counted past exhaustion by the history variables
MaxOver == 2

Dims == 1..MaxDim
Wins == 1..MaxWin
Starts == 0..MaxStart
Steps == {-1} \cup (1..MaxStep)

VARIABLES
    image_shape,        \* self._image_shape = (nrows, ncols)
    w_size,             \* self._w_size = (width, height)
    start,              \* self._start = (x0, y0)
    step,               \* self._step = (x_step, y_step)
    k,                  \* self._k
    top_left_corners,   \* self._top_left_corners, a list of (x, y)
    constructed,        \* TRUE iff __init__ returned without raising
    ret,                \* outcome of the last call (value returned or exception)
    anchor,             \* history: "init"/"reset" while only next()/here() were
                        \* called since construction/reset(), else "none"
    calls,              \* history: number of next() calls since the anchor
    run                 \* history: windows returned by those next() calls

varsExplorer == <<image_shape, w_size, start, step, k, top_left_corners,
                  constructed, ret, anchor, calls, run>>

(***************************************************************************)
(* The other parts of the package are modelled further down, each with a   *)
(* specification of its own; a specification leaves the variables of the   *)
(* other parts at their idle values.                                       *)
(***************************************************************************)
VARIABLES
    poly,               \* compgeom: the polygon P of a call
    rect0, rect1,       \* compgeom: the corners r0, r1 of a call
    gret,               \* compgeom: outcome of the last call
    tile,               \* poly_annot_inside: the buffer img
    roi,                \* poly_annot_inside: roi = (x0, y0, x1, y1)
    ann,                \* poly_annot_inside: the polygons of ann, as visited
    outside_value,      \* poly_annot_inside: outside_value
    cret,               \* poly_annot_inside: outcome of the call
    buffer,             \* masks: the array img of a call
    mask,               \* masks: the array mask of a call
    regions,            \* masks, history: the polygons added to the mask
    mret,               \* masks: outcome of the last call
    ndpa_pts,           \* ndpa2xy: the points to convert
    level,              \* ndpa2xy: the requested level
    wsi_params,         \* ndpa2xy: the parameters of the slide
    nret                \* ndpa2xy: outcome of the call

VARIABLES
    self_xy,            \* annot: the points of a Polygon annotation object
    pts_in,             \* annot, history: the points given to the constructor
    aret,               \* annot: the last operation applied to the object
    src, dst,           \* operators: the arrays src (or img) and dst of a call
    rpoly,              \* operators: the array poly of a call
    rret,               \* operators: outcome of the last call
    shared_ann,         \* workers: the annotation mapping shared by the runs
    workers             \* workers: the poly_annot_inside run of each worker

varsGeom == <<poly, rect0, rect1, gret>>
varsClip == <<tile, roi, ann, outside_value, cret>>
varsMask == <<buffer, mask, regions, mret>>
varsNdpa == <<ndpa_pts, level, wsi_params, nret>>
varsAnnot == <<self_xy, pts_in, aret>>
varsRegion == <<src, dst, rpoly, rret>>
varsWorkers == <<shared_ann, workers>>
varsMore == <<varsAnnot, varsRegion, varsWorkers>>
vars == <<varsExplorer, varsGeom, varsClip, varsMask, varsNdpa, varsMore>>

IdleExplorer ==
    /\ image_shape = <<>> /\ w_size = <<>> /\ start = <<>> /\ step = <<>>
    /\ k = 0 /\ top_left_corners = <<>> /\ constructed = FALSE
    /\ ret = [op |-> "", kind |-> "", val |-> <<>>, msg |-> ""]
    /\ anchor = "none" /\ calls = 0 /\ run = <<>>
IdleGeom == poly = <<>> /\ rect0 = <<>> /\ rect1 = <<>> /\ gret = <<>>
IdleClip ==
    tile = <<>> /\ roi = <<>> /\ ann = <<>> /\ outside_value = 0 /\ cret = <<>>
IdleMask == buffer = <<>> /\ mask = <<>> /\ regions = <<>> /\ mret = <<>>
IdleNdpa == ndpa_pts = <<>> /\ level = 0 /\ wsi_params = <<>> /\ nret = <<>>
IdleAnnot == self_xy = <<>> /\ pts_in = <<>> /\ aret = <<>>
IdleRegion == src = <<>> /\ dst = <<>> /\ rpoly = <<>> /\ rret = <<>>
IdleWorkers == shared_ann = <<>> /\ workers = <<>>
IdleMore == IdleAnnot /\ IdleRegion /\ IdleWorkers

(***************************************************************************)
(* Outcomes of a call.                                                     *)
(***************************************************************************)
Window(x0, y0, x1, y1) ==
    [kind |-> "window", val |-> <<x0, y0, x1, y1>>, msg |-> ""]
Raise(exc, m) == [kind |-> exc, val |-> <<>>, msg |-> m]
ReturnNone == [kind |-> "None", val |-> <<>>, msg |-> ""]
Called(op, outcome) ==
    [op |-> op, kind |-> outcome.kind, val |-> outcome.val, msg |-> outcome.msg]

min(a, b) == IF a <= b THEN a ELSE b

\* faulty variant: the number of values rounded down instead of up
arange_len_floor(a, b, s) ==
    LET n == IF s > 0 THEN (b - a) \div s
                      ELSE -((b - a) \div (-s))
    IN  IF n > 0 THEN n ELSE 0

(***************************************************************************)
(* numpy.arange(a, b, s) on integers: ceil((b - a) / s) values a, a+s, ... *)
(* (none when that number is not positive).  s is never 0 here.            *)
(***************************************************************************)
arange_len(a, b, s) ==
    LET n == IF s > 0 THEN (b - a + s - 1) \div s
                      ELSE -((b - a) \div (-s))
    IN  IF n > 0 THEN n ELSE 0

arange(a, b, s) == [i \in 1..arange_len(a, b, s) |-> a + (i - 1) * s]

\* faulty variant: the arrays are flattened column by column
meshgrid_zip_colmajor(xs, ys) ==
    [n \in 1..(Len(xs) * Len(ys)) |->
        <<xs[((n - 1) \div Len(ys)) + 1], ys[((n - 1) % Len(ys)) + 1]>>]

(***************************************************************************)
(* zip(x.reshape(-1), y.reshape(-1)) for x, y = meshgrid(xs, ys): both     *)
(* arrays have shape (len(ys), len(xs)), x[j][i] = xs[i], y[j][i] = ys[j], *)
(* flattened in row-major order.                                           *)
(***************************************************************************)
meshgrid_zip(xs, ys) ==
    [n \in 1..(Len(xs) * Len(ys)) |->
        <<xs[((n - 1) % Len(xs)) + 1], ys[((n - 1) \div Len(xs)) + 1]>>]

\* faulty variant: a window that reaches the image border is rejected
init_outcome_strict(shape, ws, st, sp) ==
    LET img_h == shape[1]
        img_w == shape[2]
    IN  IF ws[1] < 2 \/ ws[2] < 2
        THEN Raise("ValueError", "Window size too small.")
        ELSE IF img_w <= st[1] + ws[1] \/ img_h <= st[2] + ws[2]
        THEN Raise("ValueError", "Start position and/or window size out of image.")
        ELSE ReturnNone

(***************************************************************************)
(* MRISlidingWindow.__init__: the outcome and the corner list.             *)
(***************************************************************************)
init_outcome(shape, ws, st, sp) ==
    LET img_h == shape[1]
        img_w == shape[2]
    IN  IF ws[1] < 2 \/ ws[2] < 2
        THEN Raise("ValueError", "Window size too small.")
        ELSE IF img_w < st[1] + ws[1] \/ img_h < st[2] + ws[2]
        THEN Raise("ValueError", "Start position and/or window size out of image.")
        ELSE ReturnNone

\* faulty variant: the ranges go one position past the last full window
init_corners_wide(shape, ws, st, sp) ==
    LET img_h == shape[1]
        img_w == shape[2]
    IN  meshgrid_zip(arange(st[1], img_w - ws[1] + 2, sp[1]),
                     arange(st[2], img_h - ws[2] + 2, sp[2]))

\* faulty variant: the last corner position is left out of the ranges
init_corners_short(shape, ws, st, sp) ==
    LET img_h == shape[1]
        img_w == shape[2]
    IN  meshgrid_zip(arange(st[1], img_w - ws[1], sp[1]),
                     arange(st[2], img_h - ws[2], sp[2]))

init_corners(shape, ws, st, sp) ==
    LET img_h == shape[1]
        img_w == shape[2]
    IN  meshgrid_zip(arange(st[1], img_w - ws[1] + 1, sp[1]),
                     arange(st[2], img_h - ws[2] + 1, sp[2]))

total_steps == Len(top_left_corners)

\* faulty variant: position 0 is taken to be out of bounds
here_outcome_nozero(kk) ==
    IF 0 < kk /\ kk < total_steps
    THEN LET x0 == top_left_corners[kk + 1][1]
             y0 == top_left_corners[kk + 1][2]
             x1 == min(x0 + w_size[1], image_shape[2])
             y1 == min(y0 + w_size[2], image_shape[1])
         IN  Window(x0, y0, x1, y1)
    ELSE Raise("Error", "Position outside bounds")

\* faulty variant: the window is clipped to the image shape with the axes swapped
here_outcome_swapped(kk) ==
    IF 0 <= kk /\ kk < total_steps
    THEN LET x0 == top_left_corners[kk + 1][1]
             y0 == top_left_corners[kk + 1][2]
             x1 == min(x0 + w_size[1], image_shape[1])
             y1 == min(y0 + w_size[2], image_shape[2])
         IN  Window(x0, y0, x1, y1)
    ELSE Raise("Error", "Position outside bounds")

(***************************************************************************)
(* MRISlidingWindow.here() evaluated at position kk.                       *)
(***************************************************************************)
here_outcome(kk) ==
    IF 0 <= kk /\ kk < total_steps
    THEN LET x0 == top_left_corners[kk + 1][1]
             y0 == top_left_corners[kk + 1][2]
             x1 == min(x0 + w_size[1], image_shape[2])
             y1 == min(y0 + w_size[2], image_shape[1])
         IN  Window(x0, y0, x1, y1)
    ELSE Raise("Error", "Position outside bounds")

(***************************************************************************)
(* The state after the constructor ran, for every configuration.           *)
(***************************************************************************)
InitExplorer ==
    /\ image_shape \in Dims \X Dims
    /\ w_size \in Wins \X Wins
    /\ start \in Starts \X Starts
    /\ step \in Steps \X Steps
    /\ k = 0
    /\ LET out == init_outcome(image_shape, w_size, start, step)
       IN  /\ constructed = (out.kind = "None")
           /\ ret = Called("__init__", out)
           /\ top_left_corners =
                 IF out.kind = "None"
                 THEN init_corners(image_shape, w_size, start, step)
                 ELSE <<>>
    /\ anchor = "init"
    /\ calls = 0
    /\ run = <<>>
    /\ IdleGeom /\ IdleClip /\ IdleMask /\ IdleNdpa /\ IdleMore

Config == <<image_shape, w_size, start, step, top_left_corners, constructed>>

\* faulty variant: reset() goes to the second position
reset_to_one ==
    /\ constructed
    /\ k' = 1
    /\ ret' = Called("reset", ReturnNone)
    /\ anchor' = "reset"
    /\ calls' = 0
    /\ run' = <<>>
    /\ UNCHANGED Config
    /\ UNCHANGED <<varsGeom, varsClip, varsMask, varsNdpa, varsMore>>

reset ==
    /\ constructed
    /\ k' = 0
    /\ ret' = Called("reset", ReturnNone)
    /\ anchor' = "reset"
    /\ calls' = 0
    /\ run' = <<>>
    /\ UNCHANGED Config
    /\ UNCHANGED <<varsGeom, varsClip, varsMask, varsNdpa, varsMore>>

here ==
    /\ constructed
    /\ ret' = Called("here", here_outcome(k))
    /\ UNCHANGED <<k, anchor, calls, run>>
    /\ UNCHANGED Config
    /\ UNCHANGED <<varsGeom, varsClip, varsMask, varsNdpa, varsMore>>

\* faulty variant: last() goes to total_steps() instead of total_steps() - 1
last_past_end ==
    /\ constructed
    /\ IF total_steps > 0
       THEN /\ k' = total_steps
            /\ ret' = Called("last", here_outcome(total_steps))
       ELSE /\ k' = k
            /\ ret' = Called("last", Raise("Error", "Empty iterator"))
    /\ anchor' = "none"
    /\ calls' = 0
    /\ run' = <<>>
    /\ UNCHANGED Config
    /\ UNCHANGED <<varsGeom, varsClip, varsMask, varsNdpa, varsMore>>

last ==
    /\ constructed
    /\ IF total_steps > 0
       THEN /\ k' = total_steps - 1
            /\ ret' = Called("last", here_outcome(total_steps - 1))
       ELSE /\ k' = k
            /\ ret' = Called("last", Raise("Error", "Empty iterator"))
    /\ anchor' = "none"
    /\ calls' = 0
    /\ run' = <<>>
    /\ UNCHANGED Config
    /\ UNCHANGED <<varsGeom, varsClip, varsMask, varsNdpa, varsMore>>

\* faulty variant: next() tests k <= total_steps(), so that the call after the last
\* window reaches here() out of bounds
next_inclusive ==
    /\ constructed
    /\ anchor # "none" => calls < total_steps + MaxOver
    /\ LET out == IF k <= total_steps
                  THEN here_outcome(k)
                  ELSE Raise("StopIteration", "")
       IN  /\ ret' = Called("next", out)
           /\ k' = IF out.kind = "window" THEN k + 1 ELSE k
           /\ IF anchor # "none"
              THEN /\ calls' = calls + 1
                   /\ run' = IF out.kind = "window"
                             THEN Append(run, out.val) ELSE run
              ELSE UNCHANGED <<calls, run>>
    /\ UNCHANGED anchor
    /\ UNCHANGED Config
    /\ UNCHANGED <<varsGeom, varsClip, varsMask, varsNdpa, varsMore>>

next ==
    /\ constructed
    /\ anchor # "none" => calls < total_steps + MaxOver
    /\ LET out == IF k < total_steps
                  THEN here_outcome(k)
                  ELSE Raise("StopIteration", "")
       IN  /\ ret' = Called("next", out)
           /\ k' = IF out.kind = "window" THEN k + 1 ELSE k
           /\ IF anchor # "none"
              THEN /\ calls' = calls + 1
                   /\ run' = IF out.kind = "window"
                             THEN Append(run, out.val) ELSE run
              ELSE UNCHANGED <<calls, run>>
    /\ UNCHANGED anchor
    /\ UNCHANGED Config
    /\ UNCHANGED <<varsGeom, varsClip, varsMask, varsNdpa, varsMore>>

\* faulty variant: prev() tests k >= 0 and steps below position 0
prev_from_zero ==
    /\ constructed
    /\ IF k >= 0
       THEN /\ k' = k - 1
            /\ ret' = Called("prev", here_outcome(k - 1))
       ELSE /\ k' = k
            /\ ret' = Called("prev", Raise("StopIteration", ""))
    /\ anchor' = "none"
    /\ calls' = 0
    /\ run' = <<>>
    /\ UNCHANGED Config
    /\ UNCHANGED <<varsGeom, varsClip, varsMask, varsNdpa, varsMore>>

\* faulty variant: prev() reads the window before it steps back
prev_read_first ==
    /\ constructed
    /\ IF k >= 1
       THEN /\ k' = k - 1
            /\ ret' = Called("prev", here_outcome(k))
       ELSE /\ k' = k
            /\ ret' = Called("prev", Raise("StopIteration", ""))
    /\ anchor' = "none"
    /\ calls' = 0
    /\ run' = <<>>
    /\ UNCHANGED Config
    /\ UNCHANGED <<varsGeom, varsClip, varsMask, varsNdpa, varsMore>>

prev ==
    /\ constructed
    /\ IF k >= 1
       THEN /\ k' = k - 1
            /\ ret' = Called("prev", here_outcome(k - 1))
       ELSE /\ k' = k
            /\ ret' = Called("prev", Raise("StopIteration", ""))
    /\ anchor' = "none"
    /\ calls' = 0
    /\ run' = <<>>
    /\ UNCHANGED Config
    /\ UNCHANGED <<varsGeom, varsClip, varsMask, varsNdpa, varsMore>>

NextExplorer == reset \/ here \/ last \/ next \/ prev

SpecExplorer == InitExplorer /\ [][NextExplorer]_vars

(***************************************************************************)
(* Definitions shared by the properties.                                   *)
(***************************************************************************)
img_w == image_shape[2]
img_h == image_shape[1]
PositiveStep == step[1] >= 1 /\ step[2] >= 1

\* the window whose top-left corner is c, clipped to the image
ExpectedWindow(c) ==
    <<c[1], c[2], min(c[1] + w_size[1], img_w), min(c[2] + w_size[2], img_h)>>

\* real-number ceil(a / b) and floor(a / b) for b > 0
CeilDiv(a, b) == (a + b - 1) \div b
FloorDiv(a, b) == a \div b

\* the windows returned since the anchor are those of the first corners of
\* the list cs, in order, and all of them before the first StopIteration
RunFollows(cs) ==
    /\ Len(run) = min(calls, Len(cs))
    /\ \A i \in 1..Len(run) : run[i] = ExpectedWindow(cs[i])
    /\ (ret.op = "next" /\ calls <= Len(cs))
          => (ret.kind = "window" /\ ret.val = run[calls])
    /\ (ret.op = "next" /\ calls > Len(cs)) => ret.kind = "StopIteration"

(***************************************************************************)
(* C1: on a freshly constructed explorer with N = total_steps(), the first *)
(* N consecutive next() calls succeed, the i-th returning the window of    *)
(* the i-th precomputed corner, and every further next() raises            *)
(* StopIteration.                                                          *)
(***************************************************************************)
C1_NextThenExhausts ==
    (constructed /\ anchor = "init") => RunFollows(top_left_corners)

C1_Witness ==
    /\ constructed /\ anchor = "init"
    /\ total_steps >= 2
    /\ calls = total_steps + 1
    /\ ret.op = "next" /\ ret.kind = "StopIteration"

(***************************************************************************)
(* C2 as stated: for start (0,0), step >= 1 and a window that fits,        *)
(* total_steps() = ceil((W-w)/sx + 1) * ceil((H-h)/sy + 1).                *)
(***************************************************************************)
C2_Original ==
    (constructed /\ PositiveStep /\ start = <<0, 0>>) =>
        total_steps = (CeilDiv(img_w - w_size[1], step[1]) + 1)
                      * (CeilDiv(img_h - w_size[2], step[2]) + 1)

(***************************************************************************)
(* C2 amended: for start (0,0), step >= 1 and a window that fits,          *)
(* total_steps() = (floor((W-w)/sx) + 1) * (floor((H-h)/sy) + 1); this is  *)
(* the ceil formula exactly when sx divides W-w and sy divides H-h.        *)
(***************************************************************************)
C2_TotalSteps ==
    (constructed /\ PositiveStep /\ start = <<0, 0>>) =>
        /\ total_steps = (FloorDiv(img_w - w_size[1], step[1]) + 1)
                         * (FloorDiv(img_h - w_size[2], step[2]) + 1)
        /\ (total_steps = (CeilDiv(img_w - w_size[1], step[1]) + 1)
                          * (CeilDiv(img_h - w_size[2], step[2]) + 1))
           <=> /\ (img_w - w_size[1]) % step[1] = 0
               /\ (img_h - w_size[2]) % step[2] = 0

C2_Witness ==
    /\ constructed /\ PositiveStep /\ start = <<0, 0>>
    /\ (img_w - w_size[1]) % step[1] # 0
    /\ total_steps >= 2

(***************************************************************************)
(* C3 as stated: in every reachable state of a constructed explorer (with  *)
(* step >= 1), 0 <= k < total_steps().                                     *)
(***************************************************************************)
C3_Original ==
    (constructed /\ PositiveStep) => (0 <= k /\ k < total_steps)

(***************************************************************************)
(* C3 amended: in every reachable state of a constructed explorer,         *)
(* 0 <= k <= total_steps(); k = total_steps() is the exhausted position.   *)
(***************************************************************************)
C3_PositionRange ==
    constructed => (0 <= k /\ k <= total_steps)

C3_Witness ==
    /\ constructed /\ PositiveStep
    /\ k = total_steps
    /\ ret.op = "next" /\ ret.kind = "window"

(***************************************************************************)
(* C4: next() and prev() return a window or raise StopIteration, never the *)
(* 'Position outside bounds' Error; that Error comes only from a direct    *)
(* here() call, in a state where k is outside [0, total_steps()).          *)
(***************************************************************************)
C4_BoundsErrorOnlyFromHere ==
    /\ ret.op \in {"next", "prev"} => ret.kind \in {"window", "StopIteration"}
    /\ (ret.kind = "Error" /\ ret.msg = "Position outside bounds")
          => (ret.op = "here" /\ ~(0 <= k /\ k < total_steps))

C4_Witness ==
    /\ constructed /\ total_steps >= 1
    /\ ret.op = "here" /\ ret.kind = "Error"
    /\ ret.msg = "Position outside bounds"

(***************************************************************************)
(* C5: prev() with k >= 1 decrements k by one and returns the window at    *)
(* the new k; prev() with k = 0 raises StopIteration and leaves k = 0.     *)
(***************************************************************************)
C5_Prev ==
    [][ret'.op = "prev" =>
          /\ k >= 1 => /\ k' = k - 1
                       /\ ret'.kind = "window"
                       /\ ret'.val = ExpectedWindow(top_left_corners[k' + 1])
          /\ k = 0 => (ret'.kind = "StopIteration" /\ k' = 0)
      ]_varsExplorer

C5_Witness ==
    /\ constructed /\ total_steps >= 2
    /\ ret.op = "prev" /\ ret.kind = "window"
    /\ k = total_steps - 1

(***************************************************************************)
(* C6: reset() sets k to 0 and changes nothing else, and the windows the   *)
(* next() calls return after it are those of a freshly constructed         *)
(* explorer with the same configuration.                                   *)
(***************************************************************************)
C6_Reset ==
    /\ [][ret'.op = "reset" =>
            (k' = 0 /\ ret'.kind = "None" /\ UNCHANGED Config)]_varsExplorer
    /\ []((constructed /\ anchor = "reset") =>
            RunFollows(init_corners(image_shape, w_size, start, step)))

C6_Witness ==
    /\ constructed /\ anchor = "reset"
    /\ total_steps >= 2
    /\ calls = total_steps + 1
    /\ ret.op = "next" /\ ret.kind = "StopIteration"

(***************************************************************************)
(* C7: here() returns (x0, y0, x1, y1) with (x0, y0) the k-th corner,      *)
(* x1 = min(x0 + w, image_width), y1 = min(y0 + h, image_height); it       *)
(* raises the bounds Error exactly when k is not in [0, total_steps());    *)
(* k is unchanged in both cases.                                           *)
(***************************************************************************)
C7_Here ==
    [][ret'.op = "here" =>
          /\ k' = k
          /\ UNCHANGED Config
          /\ IF 0 <= k /\ k < total_steps
             THEN /\ ret'.kind = "window"
                  /\ ret'.val = ExpectedWindow(top_left_corners[k + 1])
             ELSE /\ ret'.kind = "Error"
                  /\ ret'.msg = "Position outside bounds"
      ]_varsExplorer

C7_Witness ==
    /\ constructed
    /\ ret.op = "here" /\ ret.kind = "window"
    /\ k >= 1
    /\ img_w # img_h

(***************************************************************************)
(* C8: last() sets k to total_steps() - 1 and returns the window at that   *)
(* index; it raises the 'Empty iterator' Error, leaving k unchanged,       *)
(* exactly when total_steps() = 0.                                         *)
(***************************************************************************)
C8_Last ==
    [][ret'.op = "last" =>
          IF total_steps = 0
          THEN /\ ret'.kind = "Error"
               /\ ret'.msg = "Empty iterator"
               /\ k' = k
          ELSE /\ k' = total_steps - 1
               /\ ret'.kind = "window"
               /\ ret'.val = ExpectedWindow(top_left_corners[total_steps])
      ]_varsExplorer

C8_Witness ==
    /\ constructed /\ total_steps >= 2
    /\ ret.op = "last" /\ ret.kind = "window"
    /\ k = total_steps - 1

(***************************************************************************)
(* C9: with start >= 0 and step >= 1, construction raises ValueError iff   *)
(* w < 2 or h < 2 or image_width < x0 + w or image_height < y0 + h;        *)
(* otherwise it succeeds with k = 0.                                       *)
(***************************************************************************)
DoesNotFit ==
    \/ w_size[1] < 2
    \/ w_size[2] < 2
    \/ img_w < start[1] + w_size[1]
    \/ img_h < start[2] + w_size[2]

C9_Construction ==
    (ret.op = "__init__" /\ PositiveStep /\ start[1] >= 0 /\ start[2] >= 0) =>
        /\ (ret.kind = "ValueError") <=> DoesNotFit
        /\ ~DoesNotFit => (constructed /\ ret.kind = "None" /\ k = 0)
        /\ constructed <=> ~DoesNotFit

C9_Witness ==
    /\ ret.op = "__init__" /\ PositiveStep
    /\ ret.kind = "ValueError"
    /\ w_size[1] >= 2 /\ w_size[2] >= 2
    /\ img_w = start[1] + w_size[1] - 1

(***************************************************************************)
(* Coverage of pixels by the enumerated windows.  A window (x0,y0,x1,y1)   *)
(* holds the pixels x0 <= x < x1, y0 <= y < y1.                            *)
(***************************************************************************)
Covered(x, y) ==
    \E i \in 1..total_steps :
        LET win == ExpectedWindow(top_left_corners[i])
        IN  /\ win[1] <= x /\ x < win[3]
            /\ win[2] <= y /\ y < win[4]

StepWithinWindow ==
    /\ PositiveStep
    /\ step[1] <= w_size[1]
    /\ step[2] <= w_size[2]

(***************************************************************************)
(* C10 as stated: if the step does not exceed the window size, every pixel *)
(* (x, y) with x0 <= x < image_width and y0 <= y < image_height lies in at *)
(* least one window.                                                       *)
(***************************************************************************)
C10_Original ==
    (constructed /\ StepWithinWindow) =>
        \A x \in start[1]..(img_w - 1), y \in start[2]..(img_h - 1) :
            Covered(x, y)

(***************************************************************************)
(* C10 amended: if 1 <= sx <= w and 1 <= sy <= h, a pixel of the extent    *)
(* lies in a window iff x < image_width - ((image_width - w - x0) mod sx)  *)
(* and y < image_height - ((image_height - h - y0) mod sy); the strip      *)
(* beyond the last full window is not covered, so the whole extent is      *)
(* covered exactly when sx divides image_width - w - x0 and sy divides     *)
(* image_height - h - y0.                                                  *)
(***************************************************************************)
C10_Coverage ==
    (constructed /\ StepWithinWindow) =>
        LET rx == (img_w - w_size[1] - start[1]) % step[1]
            ry == (img_h - w_size[2] - start[2]) % step[2]
        IN  \A x \in start[1]..(img_w - 1), y \in start[2]..(img_h - 1) :
                Covered(x, y) <=> (x < img_w - rx /\ y < img_h - ry)

C10_Witness ==
    /\ constructed /\ StepWithinWindow
    /\ (img_w - w_size[1] - start[1]) % step[1] # 0
    /\ total_steps >= 2
    /\ ~Covered(img_w - 1, start[2])
    /\ Covered(start[1], start[2])

(***************************************************************************)
(*                    GEOMETRY  (qpath2/compgeom.py)                       *)
(*                                                                         *)
(* A polygon is the sequence of its vertices <<x, y>>, with integer        *)
(* coordinates in 0..MaxCoord.  The native routines of qpath2.compgeom_    *)
(* (point_wrt_polygon_, polygon_equality_, simple_polygon_intersection_)   *)
(* are modelled by what they compute: point classification by the crossing *)
(* number, and regions by the unit cells of the grid that a polygon        *)
(* encloses, which is exact for polygons with axis-parallel edges.         *)
(***************************************************************************)
\* coordinates of rectangle corners range over 0..MaxCoord
MaxCoord == 5

max(a, b) == IF a >= b THEN a ELSE b

\* twice the signed area of the triangle a, b, p: > 0 iff p is left of a->b
cross(a, b, p) ==
    (b[1] - a[1]) * (p[2] - a[2]) - (b[2] - a[2]) * (p[1] - a[1])

on_segment(p, a, b) ==
    /\ cross(a, b, p) = 0
    /\ min(a[1], b[1]) <= p[1] /\ p[1] <= max(a[1], b[1])
    /\ min(a[2], b[2]) <= p[2] /\ p[2] <= max(a[2], b[2])

\* the vertex after the i-th one
succ_vertex(P, i) == P[(i % Len(P)) + 1]

\* the edge from the i-th vertex crosses the horizontal ray from p to +infinity
ray_crosses(P, i, p) ==
    LET a == P[i]
        b == succ_vertex(P, i)
    IN  \/ (a[2] <= p[2] /\ p[2] < b[2] /\ cross(a, b, p) > 0)
        \/ (b[2] <= p[2] /\ p[2] < a[2] /\ cross(a, b, p) < 0)

(***************************************************************************)
(* The code of one point with respect to polygon Q: 1 inside, 0 on the     *)
(* boundary, -1 outside.                                                   *)
(***************************************************************************)
point_code(p, Q) ==
    IF \E i \in 1..Len(Q) : on_segment(p, Q[i], succ_vertex(Q, i))
    THEN 0
    ELSE IF Cardinality({i \in 1..Len(Q) : ray_crosses(Q, i, p)}) % 2 = 1
    THEN 1
    ELSE -1

\* point_wrt_polygon_(px, py, Qx, Qy, r): the status and the codes put in r
native_point_wrt_polygon(points, Q) ==
    IF Len(points) = 0 THEN [n |-> -1, r |-> <<>>]
    ELSE IF Len(Q) < 3 THEN [n |-> -2, r |-> <<>>]
    ELSE [n |-> 0, r |-> [i \in 1..Len(points) |-> point_code(points[i], Q)]]

(***************************************************************************)
(* Polygon_2.is_convex(): all the turns of the boundary have the same      *)
(* direction.                                                              *)
(***************************************************************************)
turn(P, i) == cross(P[i], succ_vertex(P, i), succ_vertex(P, (i % Len(P)) + 1))

polygon_is_convex(P) ==
    \/ \A i \in 1..Len(P) : turn(P, i) >= 0
    \/ \A i \in 1..Len(P) : turn(P, i) <= 0

(***************************************************************************)
(* A polygon is simple when no two of its edges meet, except consecutive   *)
(* edges at their common vertex.                                           *)
(***************************************************************************)
sign(v) == IF v > 0 THEN 1 ELSE IF v < 0 THEN -1 ELSE 0

segments_meet(a, b, c, d) ==
    \/ on_segment(c, a, b) \/ on_segment(d, a, b)
    \/ on_segment(a, c, d) \/ on_segment(b, c, d)
    \/ /\ sign(cross(a, b, c)) * sign(cross(a, b, d)) < 0
       /\ sign(cross(c, d, a)) * sign(cross(c, d, b)) < 0

polygon_is_simple(P) ==
    LET n == Len(P)
    IN  \A i, j \in 1..n :
           (i < j /\ j # i + 1 /\ ~(i = 1 /\ j = n)) =>
               ~segments_meet(P[i], succ_vertex(P, i), P[j], succ_vertex(P, j))

(***************************************************************************)
(* Regions.  The unit cell <<i, j>> is the square [i, i+1] x [j, j+1]; it  *)
(* belongs to the region of P when its centre is inside P (the test is     *)
(* made on coordinates multiplied by 2).                                   *)
(***************************************************************************)
AllCells == (0..(MaxCoord - 1)) \X (0..(MaxCoord - 1))

twice(P) == [i \in 1..Len(P) |-> <<2 * P[i][1], 2 * P[i][2]>>]

cells_of(P) ==
    LET P2 == twice(P)
    IN  {c \in AllCells : point_code(<<2 * c[1] + 1, 2 * c[2] + 1>>, P2) = 1}

\* the order of points and cells: by row, then by column
before(p, q) == p[2] < q[2] \/ (p[2] = q[2] /\ p[1] <= q[1])
first_of(S) == CHOOSE p \in S : \A q \in S : before(p, q)

adjacent(c, d) ==
    \/ (c[1] = d[1] /\ (c[2] = d[2] + 1 \/ d[2] = c[2] + 1))
    \/ (c[2] = d[2] /\ (c[1] = d[1] + 1 \/ d[1] = c[1] + 1))

\* the cells of `cells` connected (by their sides) to those of `part`
RECURSIVE component(_, _)
component(part, cells) ==
    LET more == {c \in cells \ part : \E d \in part : adjacent(c, d)}
    IN  IF more = {} THEN part ELSE component(part \cup more, cells)

\* the connected components of a set of cells, in the order of their first cells
RECURSIVE components(_)
components(cells) ==
    IF cells = {} THEN <<>>
    ELSE LET comp == component({first_of(cells)}, cells)
         IN  <<comp>> \o components(cells \ comp)

\* the sides of the cells of comp that lie on its boundary, counterclockwise
boundary_edges(comp) ==
    UNION {
        LET i == c[1]
            j == c[2]
        IN  (IF <<i, j - 1>> \in comp THEN {} ELSE {<<<<i, j>>, <<i + 1, j>>>>})
            \cup (IF <<i + 1, j>> \in comp THEN {}
                  ELSE {<<<<i + 1, j>>, <<i + 1, j + 1>>>>})
            \cup (IF <<i, j + 1>> \in comp THEN {}
                  ELSE {<<<<i + 1, j + 1>>, <<i, j + 1>>>>})
            \cup (IF <<i - 1, j>> \in comp THEN {} ELSE {<<<<i, j + 1>>, <<i, j>>>>})
        : c \in comp }

RECURSIVE follow(_, _, _)
follow(edges, from, left) ==
    IF left = 0 THEN <<>>
    ELSE LET e == CHOOSE f \in edges : f[1] = from
         IN  <<from>> \o follow(edges, e[2], left - 1)

\* the boundary of a component as a polygon
outline(comp) ==
    LET edges == boundary_edges(comp)
    IN  follow(edges, first_of({e[1] : e \in edges}), Cardinality(edges))

RECURSIVE flatten(_)
flatten(seqs) == IF seqs = <<>> THEN <<>> ELSE Head(seqs) \o flatten(Tail(seqs))

(***************************************************************************)
(* simple_polygon_intersection_(Px, Py, Qx, Qy, rx, ry, rn): the status n, *)
(* the vertices of all the components (rx, ry, here rxy) and the number of *)
(* vertices of each component (rn).                                        *)
(***************************************************************************)
native_simple_polygon_intersection(P, Q) ==
    IF Len(P) < 3 THEN [n |-> -1, rxy |-> <<>>, rn |-> <<>>]
    ELSE IF Len(Q) < 3 THEN [n |-> -2, rxy |-> <<>>, rn |-> <<>>]
    ELSE IF ~polygon_is_simple(P) \/ ~polygon_is_simple(Q)
    THEN [n |-> -3, rxy |-> <<>>, rn |-> <<>>]
    ELSE LET comps == components(cells_of(P) \cap cells_of(Q))
             outs == [i \in 1..Len(comps) |-> outline(comps[i])]
         IN  [n |-> Len(comps),
              rxy |-> flatten(outs),
              rn |-> [i \in 1..Len(outs) |-> Len(outs[i])]]

\* polygon_equality_(Px, Py, Qx, Qy): 1 when P and Q enclose the same region
native_polygon_equality(P, Q) ==
    IF Len(P) = 0 THEN -1
    ELSE IF Len(Q) = 0 THEN -2
    ELSE IF cells_of(P) = cells_of(Q) THEN 1 ELSE 0

(***************************************************************************)
(* The Python wrappers: what they make of the status n of the native       *)
(* routine.                                                                *)
(***************************************************************************)
Returned(v) == [kind |-> "return", val |-> v, msg |-> ""]

cumsum(rn) ==
    LET RECURSIVE sum(_)
        sum(i) == IF i = 0 THEN 0 ELSE rn[i] + sum(i - 1)
    IN  [i \in 1..Len(rn) |-> sum(i)]

\* polygon_equality, from the status of polygon_equality_
polygon_equality_result(n) ==
    IF n >= 0 THEN Returned(n # 0)
    ELSE IF n = -1 \/ n = -2 THEN Raise("Error", "Size mismatch in P or Q")
    ELSE Raise("Error", "Unknown error")

polygon_equality(P, Q) == polygon_equality_result(native_polygon_equality(P, Q))

\* simple_polygon_intersection, from the outputs of simple_polygon_intersection_
simple_polygon_intersection_result(nat) ==
    IF nat.n = 0 THEN Returned(<<>>)
    ELSE IF nat.n = -1 \/ nat.n = -2
    THEN Raise("Error", "Size mismatch in P or Q")
    ELSE IF nat.n = -3 THEN Raise("Error", "The polygons are not simple")
    ELSE IF nat.n = -4 THEN Raise("Error", "The intersection is not bounded")
    ELSE IF nat.n > 1
    THEN LET e == cumsum(nat.rn)
             b == <<0>> \o SubSeq(e, 1, Len(e) - 1)
         IN  Returned([i \in 1..Len(e) |-> SubSeq(nat.rxy, b[i] + 1, e[i])])
    ELSE Returned(<<nat.rxy>>)

simple_polygon_intersection(P, Q) ==
    simple_polygon_intersection_result(native_simple_polygon_intersection(P, Q))

\* point_wrt_polygon, from the outputs of point_wrt_polygon_
point_wrt_polygon_result(nat) ==
    IF nat.n = -1 \/ nat.n = -2 THEN Raise("Error", "Size mismatch in p or Q")
    ELSE IF nat.n < -2 THEN Raise("Error", "Unspecific error")
    ELSE Returned(nat.r)

point_wrt_polygon(points, Q) ==
    point_wrt_polygon_result(native_point_wrt_polygon(points, Q))

\* np.array([r0, (r0[0], r1[1]), r1, (r1[0], r0[1])])
rect_polygon(r0, r1) == <<r0, <<r0[1], r1[2]>>, r1, <<r1[1], r0[2]>>>>

(***************************************************************************)
(* rect_inside_polygon(r0, r1, P)                                          *)
(***************************************************************************)
rect_inside_polygon(r0, r1, P) ==
    IF polygon_is_convex(P)
    THEN LET r == point_wrt_polygon(<<r0, r1>>, P)
         IN  IF r.kind # "return" THEN r
             ELSE Returned(\A i \in 1..Len(r.val) : r.val[i] = 1)
    ELSE LET r == simple_polygon_intersection(P, rect_polygon(r0, r1))
         IN  IF r.kind # "return" THEN r
             ELSE IF Len(r.val) = 0 \/ Len(r.val) > 1 THEN Returned(FALSE)
             ELSE polygon_equality(P, r.val[1])

(***************************************************************************)
(* The polygons of the model.                                              *)
(***************************************************************************)
Square == <<<<0, 0>>, <<5, 0>>, <<5, 5>>, <<0, 5>>>>
Slab == <<<<0, 0>>, <<1, 0>>, <<4, 4>>, <<3, 4>>>>
Triangle == <<<<0, 0>>, <<5, 0>>, <<0, 5>>>>
LShape == <<<<0, 0>>, <<5, 0>>, <<5, 3>>, <<2, 3>>, <<2, 5>>, <<0, 5>>>>
UShape == <<<<0, 0>>, <<5, 0>>, <<5, 5>>, <<4, 5>>, <<4, 2>>, <<1, 2>>,
            <<1, 5>>, <<0, 5>>>>
Block == <<<<1, 1>>, <<3, 1>>, <<3, 2>>, <<2, 2>>, <<2, 3>>, <<1, 3>>>>
BowTie == <<<<0, 0>>, <<4, 4>>, <<4, 0>>, <<0, 4>>>>
Polygons == {Square, Slab, Triangle, LShape, UShape, Block, BowTie}

Coords == 0..MaxCoord
\* the native routines report the failures -1 .. -4 and OtherStatuses further
\* negative values
OtherStatuses == 2
MinStatus == -4 - OtherStatuses

InitGeom ==
    /\ poly \in Polygons
    /\ rect0 \in Coords \X Coords
    /\ rect1 \in Coords \X Coords
    /\ rect0[1] < rect1[1] /\ rect0[2] < rect1[2]
    /\ gret = [op |-> "", n |-> 0, kind |-> "", val |-> <<>>, msg |-> ""]
    /\ IdleExplorer /\ IdleClip /\ IdleMask /\ IdleNdpa /\ IdleMore

GeomCalled(op, n, outcome) ==
    [op |-> op, n |-> n, kind |-> outcome.kind, val |-> outcome.val,
     msg |-> outcome.msg]

GeomFrame ==
    UNCHANGED <<poly, rect0, rect1, varsExplorer, varsClip, varsMask, varsNdpa, varsMore>>

call_rect_inside_polygon ==
    /\ gret' = GeomCalled("rect_inside_polygon", 0,
                          rect_inside_polygon(rect0, rect1, poly))
    /\ GeomFrame

\* simple_polygon_intersection(poly, rectangle): the native routine reports
\* what it computes, or a failure
call_simple_polygon_intersection ==
    /\ \E nat \in {native_simple_polygon_intersection(poly, rect_polygon(rect0, rect1))}
                  \cup {[n |-> m, rxy |-> <<>>, rn |-> <<>>] : m \in MinStatus..(-1)} :
          gret' = GeomCalled("simple_polygon_intersection", nat.n,
                             simple_polygon_intersection_result(nat))
    /\ GeomFrame

call_polygon_equality ==
    /\ \E n \in {native_polygon_equality(poly, rect_polygon(rect0, rect1))}
                \cup MinStatus..(-1) :
          gret' = GeomCalled("polygon_equality", n, polygon_equality_result(n))
    /\ GeomFrame

call_point_wrt_polygon ==
    /\ \E nat \in {native_point_wrt_polygon(<<rect0, rect1>>, poly)}
                  \cup {[n |-> m, r |-> <<>>] : m \in MinStatus..(-1)} :
          gret' = GeomCalled("point_wrt_polygon", nat.n,
                             point_wrt_polygon_result(nat))
    /\ GeomFrame

NextGeom ==
    \/ call_rect_inside_polygon
    \/ call_simple_polygon_intersection
    \/ call_polygon_equality
    \/ call_point_wrt_polygon

SpecGeom == InitGeom /\ [][NextGeom]_vars

(***************************************************************************)
(* C11 (fails on the code): for a convex polygon P, rect_inside_polygon    *)
(* returns True iff the whole rectangle spanned by r0 and r1, with its     *)
(* four corners, lies inside P.                                            *)
(***************************************************************************)
RectCorners(r0, r1) == {r0, r1, <<r0[1], r1[2]>>, <<r1[1], r0[2]>>}

C11_ConvexRectInside ==
    (gret.op = "rect_inside_polygon" /\ polygon_is_convex(poly)) =>
        /\ gret.kind = "return"
        /\ gret.val <=> \A c \in RectCorners(rect0, rect1) : point_code(c, poly) = 1

(***************************************************************************)
(* C12 (fails on the code): for a non-convex simple polygon P,             *)
(* rect_inside_polygon returns True iff the intersection of P with the     *)
(* rectangle is a single component equal to the rectangle; no component or *)
(* several components give False.                                          *)
(***************************************************************************)
C12_NonConvexRectInside ==
    (/\ gret.op = "rect_inside_polygon"
     /\ ~polygon_is_convex(poly) /\ polygon_is_simple(poly)) =>
        LET R == rect_polygon(rect0, rect1)
            nat == native_simple_polygon_intersection(poly, R)
        IN  /\ gret.kind = "return"
            /\ gret.val <=> /\ nat.n = 1
                            /\ native_polygon_equality(R, nat.rxy) = 1

(***************************************************************************)
(* C13 (fails on the code): each of the three wrappers raises an Error     *)
(* whenever the native routine reports a negative status, and returns a    *)
(* result only for a status >= 0.                                          *)
(***************************************************************************)
C13_NegativeStatusRaises ==
    gret.op \in {"simple_polygon_intersection", "polygon_equality",
                 "point_wrt_polygon"} =>
        /\ gret.n < 0 => gret.kind = "Error"
        /\ gret.kind = "return" => gret.n >= 0

(***************************************************************************)
(*                        MASKS  (qpath2/masks.py)                         *)
(*                                                                         *)
(* A 2-D array is a record [shape, a]: a maps the index pairs <<i, j>>,    *)
(* i < shape[1], j < shape[2], to the values.  A buffer (image) is a       *)
(* record [vigra, ndim, shape, ch] with the sequence ch of its channels,   *)
(* each a function on the same index pairs.  Values are 8-bit (np.uint8).  *)
(***************************************************************************)
PixelModulus == 256

Idx(shape) == (0..(shape[1] - 1)) \X (0..(shape[2] - 1))

mul8(a, b) == (a * b) % PixelModulus
add8(a, b) == (a + b) % PixelModulus
sub8(a, b) == (a - b) % PixelModulus

(***************************************************************************)
(* skimage.draw.polygon(r, c, shape): the pixels (r, c) of the polygon     *)
(* with vertex rows r and columns c, edge pixels included, clipped to      *)
(* shape.  The vertices are given here as <<c, r>> = <<x, y>> pairs.       *)
(***************************************************************************)
draw_polygon(poly_line, shape) ==
    {rc \in Idx(shape) : point_code(<<rc[2], rc[1]>>, poly_line) >= 0}

\* masked_points(poly_line, shape): the pairs (X[i], Y[i]) = (c, r); the
\* result of np.vstack is dropped, so that poly_line is drawn as it is
masked_points_line(poly_line) == poly_line

masked_points(poly_line, shape) ==
    {<<rc[2], rc[1]>> : rc \in draw_polygon(masked_points_line(poly_line), shape)}

\* faulty variant: the mask is replaced by the region
add_region_only(m, poly_line) ==
    LET cr == masked_points(poly_line, m.shape)
    IN  [m EXCEPT !.a = [i \in DOMAIN m.a |->
                             IF <<i[2], i[1]>> \in cr THEN 1 ELSE 0]]

\* add_region(mask, poly_line): mask[r, c] = 1
add_region(m, poly_line) ==
    LET cr == masked_points(poly_line, m.shape)
    IN  [m EXCEPT !.a = [i \in DOMAIN m.a |->
                             IF <<i[2], i[1]>> \in cr THEN 1 ELSE m.a[i]]]

\* mask[mask > 0] = 1
binarized(m) == [m EXCEPT !.a = [i \in DOMAIN m.a |->
                                    IF m.a[i] > 0 THEN 1 ELSE m.a[i]]]

\* c *= mask, for one channel
times(c, m) == [i \in DOMAIN c |-> mul8(c[i], m.a[i])]

\* faulty variant: the mask is used as it is given
apply_mask_raw(img, m) ==
    [img |-> [img EXCEPT !.ch = [c \in DOMAIN img.ch |-> times(img.ch[c], m)]],
     mask |-> m]

(***************************************************************************)
(* apply_mask(img, mask): the buffer and the mask after the call (both are *)
(* changed in place).                                                      *)
(***************************************************************************)
apply_mask(img, m) ==
    LET bin == binarized(m)
    IN  [img |->
            IF img.vigra
            THEN [img EXCEPT !.ch = [c \in DOMAIN img.ch |-> times(img.ch[c], bin)]]
            ELSE IF img.ndim = 2
            THEN [img EXCEPT !.ch = <<times(img.ch[1], bin)>>]
            ELSE [img EXCEPT !.ch = [c \in 1..img.shape[3] |-> times(img.ch[c], bin)]],
         mask |-> bin]

\* faulty variant: the fill value is added everywhere
mask_and_fill_everywhere(img, m, value) ==
    LET applied == apply_mask(img, m)
    IN  [img |-> [applied.img EXCEPT !.ch =
                     [c \in DOMAIN applied.img.ch |->
                         [i \in DOMAIN applied.img.ch[c] |->
                             add8(applied.img.ch[c][i], value)]]],
         mask |-> applied.mask]

(***************************************************************************)
(* The end of poly_annot_inside (annot/operators.py): apply_mask, then     *)
(* roi_mask = 1 - roi_mask; roi_mask *= outside_value; c += roi_mask for   *)
(* every channel c.  The buffer, and the caller's mask, after it.          *)
(***************************************************************************)
mask_and_fill(img, m, value) ==
    LET applied == apply_mask(img, m)
        inverted == [i \in DOMAIN applied.mask.a |-> sub8(1, applied.mask.a[i])]
        scaled == [i \in DOMAIN inverted |-> mul8(inverted[i], value)]
    IN  [img |-> [applied.img EXCEPT !.ch =
                     [c \in DOMAIN applied.img.ch |->
                         [i \in DOMAIN applied.img.ch[c] |->
                             add8(applied.img.ch[c][i], scaled[i])]]],
         mask |-> applied.mask]

(***************************************************************************)
(* The arrays of the masks model: 2 rows by 3 columns.                     *)
(***************************************************************************)
MaskShape == <<2, 3>>
\* the values of a mask given to a call range over 0..MaxMask
MaxMask == 2
\* channels of a multi-channel buffer
NumChannels == 2
\* the buffers differ by an offset of their pixel values
Seeds == {0, 200}
OutsideValues == {0, 7, 255}

pixel(seed, i, c) ==
    (seed + 40 * i[1] + 13 * i[2] + 100 * (c - 1)) % PixelModulus

Buffers ==
    {[vigra |-> FALSE, ndim |-> 2, shape |-> MaskShape,
      ch |-> <<[i \in Idx(MaskShape) |-> pixel(seed, i, 1)]>>] : seed \in Seeds}
    \cup
    {[vigra |-> v, ndim |-> 3, shape |-> MaskShape \o <<NumChannels>>,
      ch |-> [c \in 1..NumChannels |-> [i \in Idx(MaskShape) |-> pixel(seed, i, c)]]]
        : v \in BOOLEAN, seed \in Seeds}

Corner == <<<<0, 0>>, <<1, 0>>, <<0, 1>>>>
Diagonal == <<<<1, 0>>, <<1, 1>>, <<0, 1>>>>
RegionPolygons == {Corner, Diagonal, Triangle}

InitMask ==
    /\ buffer \in Buffers
    /\ mask \in {[shape |-> MaskShape, a |-> f] : f \in [Idx(MaskShape) -> 0..MaxMask]}
    /\ regions = [base |-> mask, polys |-> {}]
    /\ mret = [op |-> "", poly |-> <<>>, value |-> 0, mask_in |-> <<>>]
    /\ IdleExplorer /\ IdleGeom /\ IdleClip /\ IdleNdpa /\ IdleMore

MaskFrame == UNCHANGED <<varsExplorer, varsGeom, varsClip, varsNdpa, varsMore>>

call_apply_mask ==
    /\ LET out == apply_mask(buffer, mask)
       IN  /\ buffer' = out.img
           /\ mask' = out.mask
           /\ regions' = [base |-> out.mask, polys |-> {}]
    /\ mret' = [op |-> "apply_mask", poly |-> <<>>, value |-> 0, mask_in |-> mask]
    /\ MaskFrame

call_add_region ==
    /\ \E p \in RegionPolygons :
          /\ mask' = add_region(mask, p)
          /\ regions' = [regions EXCEPT !.polys = @ \cup {p}]
          /\ mret' = [op |-> "add_region", poly |-> p, value |-> 0, mask_in |-> <<>>]
    /\ UNCHANGED buffer
    /\ MaskFrame

\* the end of poly_annot_inside, on a vigra buffer
call_mask_and_fill ==
    /\ buffer.vigra
    /\ \E v \in OutsideValues :
          LET out == mask_and_fill(buffer, mask, v)
          IN  /\ buffer' = out.img
              /\ mask' = out.mask
              /\ regions' = [base |-> out.mask, polys |-> {}]
              /\ mret' = [op |-> "mask_and_fill", poly |-> <<>>, value |-> v,
                          mask_in |-> mask]
    /\ MaskFrame

NextMask == call_apply_mask \/ call_add_region \/ call_mask_and_fill

SpecMask == InitMask /\ [][NextMask]_vars

(***************************************************************************)
(* C16: apply_mask followed by the addition of outside_value * (1 - mask)  *)
(* to every channel leaves every pixel at a mask = 1 position as it was    *)
(* and sets every pixel at a mask = 0 position to outside_value.           *)
(***************************************************************************)
C16_MaskThenFill ==
    [][mret'.op = "mask_and_fill" =>
          \A c \in DOMAIN buffer.ch, i \in DOMAIN mask.a :
              /\ mask.a[i] = 1 => buffer'.ch[c][i] = buffer.ch[c][i]
              /\ mask.a[i] = 0 => buffer'.ch[c][i] = mret'.value
      ]_vars

C16_Witness ==
    /\ mret.op = "mask_and_fill" /\ mret.value > 0
    /\ \E i, j \in DOMAIN mask.a :
          /\ mret.mask_in.a[i] = 1 /\ buffer.ch[1][i] # mret.value
          /\ mret.mask_in.a[j] = 0 /\ buffer.ch[1][j] = mret.value

(***************************************************************************)
(* C17: apply_mask sets every channel value to 0 where mask = 0 and leaves *)
(* it unchanged where mask > 0, also where the mask value is above 1.      *)
(***************************************************************************)
C17_ApplyMask ==
    [][mret'.op = "apply_mask" =>
          /\ DOMAIN buffer'.ch = DOMAIN buffer.ch
          /\ \A c \in DOMAIN buffer.ch, i \in DOMAIN mask.a :
                buffer'.ch[c][i] = IF mask.a[i] = 0 THEN 0 ELSE buffer.ch[c][i]
      ]_vars

C17_Witness ==
    /\ mret.op = "apply_mask"
    /\ buffer.ndim = 3 /\ ~buffer.vigra
    /\ \E i, j \in DOMAIN mask.a :
          /\ mret.mask_in.a[i] = 2 /\ buffer.ch[2][i] > 1
          /\ mret.mask_in.a[j] = 0 /\ buffer.ch[2][j] = 0

(***************************************************************************)
(* C18: add_region(mask, polygon) sets the cells of the rasterised polygon *)
(* to 1 and keeps every other cell (so a cell that was 1 stays 1); after   *)
(* any sequence of calls the mask is the mask before them with the cells   *)
(* of all the rasterised polygons set to 1, and a second call with the     *)
(* same polygon changes nothing.                                           *)
(***************************************************************************)
C18_AddRegion ==
    /\ [][mret'.op = "add_region" =>
            /\ \A i \in DOMAIN mask.a :
                  /\ mask'.a[i] = IF i \in draw_polygon(mret'.poly, mask.shape)
                                  THEN 1 ELSE mask.a[i]
                  /\ mask.a[i] = 1 => mask'.a[i] = 1
            /\ mret'.poly \in regions.polys => mask' = mask
        ]_vars
    /\ [](\A i \in DOMAIN mask.a :
             mask.a[i] =
                IF \E q \in regions.polys : i \in draw_polygon(q, mask.shape)
                THEN 1 ELSE regions.base.a[i])

C18_Witness ==
    /\ mret.op = "add_region"
    /\ regions.polys = {Corner, Diagonal}
    /\ \E i, j \in DOMAIN mask.a :
          /\ regions.base.a[i] = 0 /\ mask.a[i] = 1
          /\ regions.base.a[j] = 2 /\ mask.a[j] = 2

(***************************************************************************)
(*            POLY_ANNOT_INSIDE  (qpath2/annot/operators.py)               *)
(*                                                                         *)
(* img is a vigra buffer of shape (width, height, channels); roi gives the *)
(* place of the tile in the image; ann is given as the sequence of its     *)
(* polygons in the order in which "for a in ann" visits them.              *)
(***************************************************************************)
\* q -= [x0, y0]
translate(q, x0, y0) == [i \in 1..Len(q) |-> <<q[i][1] - x0, q[i][2] - y0>>]

\* for q in intr: q -= [x0, y0]; add_region(roi_mask, q)
RECURSIVE add_regions(_, _, _, _)
add_regions(m, intr, x0, y0) ==
    IF intr = <<>> THEN m
    ELSE add_regions(add_region(m, translate(Head(intr), x0, y0)), Tail(intr), x0, y0)

\* r = np.array([[x0, y0], [x1, y1]])
roi_operand(xy) == <<<<xy[1], xy[2]>>, <<xy[3], xy[4]>>>>

(***************************************************************************)
(* The loop over ann: how it ends ("return" when a polygon contains the    *)
(* ROI, "Error" when a geometry routine raises, "done" after the last      *)
(* polygon), the mask built so far and the number of calls made to         *)
(* simple_polygon_intersection.                                            *)
(***************************************************************************)
RECURSIVE annot_loop(_, _, _, _)
annot_loop(rest, xy, m, icalls) ==
    IF rest = <<>>
    THEN [kind |-> "done", msg |-> "", mask |-> m, icalls |-> icalls]
    ELSE LET P == Head(rest)
             inside == rect_inside_polygon(<<xy[1], xy[2]>>, <<xy[3], xy[4]>>, P)
             c1 == icalls + (IF polygon_is_convex(P) THEN 0 ELSE 1)
         IN  IF inside.kind # "return"
             THEN [kind |-> "Error", msg |-> inside.msg, mask |-> m, icalls |-> c1]
             ELSE IF inside.val
             THEN [kind |-> "return", msg |-> "", mask |-> m, icalls |-> c1]
             ELSE LET r == roi_operand(xy)
                      intr == simple_polygon_intersection(r, P)
                  IN  IF intr.kind # "return"
                      THEN [kind |-> "Error", msg |-> intr.msg, mask |-> m,
                            icalls |-> c1 + 1]
                      ELSE annot_loop(Tail(rest), xy,
                                      add_regions(m, intr.val, xy[1], xy[2]),
                                      c1 + 1)

\* roi_mask = vigra.VigraArray((img.width, img.height), ...): the module
\* annot/operators.py does not import vigra, the name is not bound and the
\* statement raises NameError for every img
roi_mask(img) ==
    [kind |-> "NameError", msg |-> "global name 'vigra' is not defined",
     val |-> <<>>]

(***************************************************************************)
(* poly_annot_inside(img, roi, ann, outside_value): the outcome, the       *)
(* buffer img after the call and the number of intersection calls.  The    *)
(* NameError of roi_mask leaves the call before the loop over ann; the     *)
(* loop, apply_mask and the fill follow it in the source.                  *)
(***************************************************************************)
poly_annot_inside(img, xy, polys, value) ==
    LET m == roi_mask(img)
    IN  IF m.kind # "return"
        THEN [kind |-> m.kind, msg |-> m.msg, img |-> img, icalls |-> 0]
        ELSE LET loop == annot_loop(polys, xy, m.val, 0)
             IN  [kind |-> IF loop.kind = "Error" THEN "Error" ELSE "return",
                  msg |-> loop.msg,
                  img |-> IF loop.kind = "done"
                          THEN mask_and_fill(img, loop.mask, value).img
                          ELSE img,
                  icalls |-> loop.icalls]

\* a tile is at most MaxTile pixels wide and high
MaxTile == 2
Rois ==
    {<<x0, y0, x0 + w, y0 + h>> :
        x0 \in Coords, y0 \in Coords, w \in 1..MaxTile, h \in 1..MaxTile}
Annotations ==
    {<<>>} \cup {<<P>> : P \in Polygons}
           \cup {<<P, Q>> : P \in Polygons, Q \in Polygons}

tile_of(xy, seed) ==
    [vigra |-> TRUE, ndim |-> 3,
     shape |-> <<xy[3] - xy[1], xy[4] - xy[2], NumChannels>>,
     ch |-> [c \in 1..NumChannels |->
                [i \in Idx(<<xy[3] - xy[1], xy[4] - xy[2]>>) |-> pixel(seed, i, c)]]]

InitClip ==
    /\ roi \in {xy \in Rois : xy[3] <= MaxCoord /\ xy[4] <= MaxCoord}
    /\ ann \in {s \in Annotations : \A i, j \in 1..Len(s) : i # j => s[i] # s[j]}
    /\ outside_value \in OutsideValues
    /\ tile \in {tile_of(roi, seed) : seed \in Seeds}
    /\ cret = [kind |-> "", msg |-> "", img |-> tile, icalls |-> 0]
    /\ IdleExplorer /\ IdleGeom /\ IdleMask /\ IdleNdpa /\ IdleMore

\* tile is the buffer on entry, cret.img the same buffer after the call
call_poly_annot_inside ==
    /\ cret.kind = ""
    /\ cret' = poly_annot_inside(tile, roi, ann, outside_value)
    /\ UNCHANGED <<tile, roi, ann, outside_value>>
    /\ UNCHANGED <<varsExplorer, varsGeom, varsMask, varsNdpa, varsMore>>

NextClip == call_poly_annot_inside

SpecClip == InitClip /\ [][NextClip]_vars

\* the region of P covers the rectangle of the ROI
CoversRoi(P, xy) ==
    cells_of(rect_polygon(<<xy[1], xy[2]>>, <<xy[3], xy[4]>>)) \subseteq cells_of(P)

\* ... and no corner of the ROI touches the boundary of P
ContainsRoi(P, xy) ==
    /\ polygon_is_simple(P)
    /\ CoversRoi(P, xy)
    /\ \A c \in RectCorners(<<xy[1], xy[2]>>, <<xy[3], xy[4]>>) : point_code(c, P) = 1

(***************************************************************************)
(* C14 (fails on the code): when the annotation is one polygon, convex or  *)
(* not, that fully contains the ROI rectangle, poly_annot_inside returns   *)
(* the tile with every pixel unchanged and makes no call to the            *)
(* polygon-intersection routine.                                           *)
(***************************************************************************)
C14_ContainedTileUnchanged ==
    (cret.kind # "" /\ Len(ann) = 1 /\ ContainsRoi(ann[1], roi)) =>
        /\ cret.kind = "return"
        /\ cret.img = tile
        /\ cret.icalls = 0

(***************************************************************************)
(* C15 (fails on the code): for a tile that no annotation polygon covers,  *)
(* the polygons being simple, poly_annot_inside returns, and the pixel at  *)
(* column x, row y keeps its value in every channel if the image point     *)
(* (x0 + x, y0 + y) lies in some annotation polygon and equals             *)
(* outside_value otherwise.                                                *)
(***************************************************************************)
C15_PixelsKeptInsideAnnotations ==
    (/\ cret.kind # ""
     /\ \A n \in 1..Len(ann) : polygon_is_simple(ann[n]) /\ ~CoversRoi(ann[n], roi)) =>
        /\ cret.kind = "return"
        /\ \A c \in DOMAIN tile.ch, i \in DOMAIN tile.ch[1] :
              cret.img.ch[c][i] =
                 IF \E n \in 1..Len(ann) :
                       point_code(<<roi[1] + i[1], roi[2] + i[2]>>, ann[n]) >= 0
                 THEN tile.ch[c][i]
                 ELSE outside_value

(***************************************************************************)
(*                  NDPA2XY  (qpath2/annot/tools.py)                       *)
(*                                                                         *)
(* The points and the offsets are integers (nanometres).  x_mpp and y_mpp  *)
(* are floats (core.py, WSIInfo); the model holds them as the exact        *)
(* fractions [num, den] and computes with fractions, which is what the     *)
(* float operations give for the values used here.                         *)
(***************************************************************************)
RECURSIVE pow2(_)
pow2(n) == IF n = 0 THEN 1 ELSE 2 * pow2(n - 1)

\* long(num / den), den > 0: the fraction without its fractional part
long(num, den) == IF num >= 0 THEN num \div den ELSE -((-num) \div den)

\* faulty variant: the level-0 position is rounded down, then divided
to_pixel_floor(x, offset, mpp, size, lvl) ==
    LET half == size \div 2
    IN  (((x - offset) * mpp.den + half * 1000 * mpp.num) \div (1000 * mpp.num))
            \div pow2(lvl)

(***************************************************************************)
(* x -= offset; x /= (1000 * mpp); x = long((x + size / 2) / d), with      *)
(* d = 2**level and size / 2 a division of integers:                       *)
(*   ((x - offset) * den / (1000 * num) + half) / d                        *)
(*      = ((x - offset) * den + half * 1000 * num) / (1000 * num * d)      *)
(***************************************************************************)
to_pixel(x, offset, mpp, size, lvl) ==
    LET half == size \div 2
    IN  long((x - offset) * mpp.den + half * 1000 * mpp.num,
             1000 * mpp.num * pow2(lvl))

\* faulty variant: the level is checked before the vendor
ndpa2xy_level_first(pts, lvl, params) ==
    IF lvl > params.level_count THEN Raise("Error", "level out of bounds")
    ELSE IF params.vendor # "hamamatsu" THEN Raise("Error", "vendor mismatch")
    ELSE LET xy == [i \in 1..Len(pts) |->
                      <<to_pixel(pts[i][1], params.x_offset, params.x_mpp,
                                 params.levels[0].x_size, lvl),
                        to_pixel(pts[i][2], params.y_offset, params.y_mpp,
                                 params.levels[0].y_size, lvl)>>]
         IN  IF \E i \in 1..Len(xy) : xy[i][1] < 0 \/ xy[i][2] < 0
             THEN Raise("Error", "negative coordinates")
             ELSE Returned(xy)

ndpa2xy(pts, lvl, params) ==
    IF params.vendor # "hamamatsu" THEN Raise("Error", "vendor mismatch")
    ELSE IF lvl > params.level_count THEN Raise("Error", "level out of bounds")
    ELSE LET xy == [i \in 1..Len(pts) |->
                      <<to_pixel(pts[i][1], params.x_offset, params.x_mpp,
                                 params.levels[0].x_size, lvl),
                        to_pixel(pts[i][2], params.y_offset, params.y_mpp,
                                 params.levels[0].y_size, lvl)>>]
         IN  IF \E i \in 1..Len(xy) : xy[i][1] < 0 \/ xy[i][2] < 0
             THEN Raise("Error", "negative coordinates")
             ELSE Returned(xy)

MaxLevel == 3
MaxLevelCount == 2
PtValues == {-5000, -500, -375, -125, 0, 250}
NdpaPoints ==
    {<<p>> : p \in PtValues \X PtValues}
    \cup {<<p, <<0, 0>>>> : p \in PtValues \X PtValues}
    \cup {<<<<250, 0>>, p>> : p \in PtValues \X PtValues}
\* 0.25, 0.5 and 1 micron per pixel
Mpps == {[num |-> 1, den |-> 4], [num |-> 1, den |-> 2], [num |-> 1, den |-> 1]}
Vendors == {"hamamatsu", "aperio"}

\* the info of a WSIInfo: level l is 2**l times smaller than level 0
WsiParams ==
    {[vendor |-> v, level_count |-> n, x_offset |-> off, y_offset |-> 0,
      x_mpp |-> mx, y_mpp |-> my,
      levels |-> [l \in 0..(n - 1) |->
                    [x_size |-> sz[1] \div pow2(l), y_size |-> sz[2] \div pow2(l)]]] :
        v \in Vendors, n \in 1..MaxLevelCount, off \in {0, 250},
        mx \in Mpps, my \in Mpps, sz \in {<<4, 3>>, <<8, 2>>}}

InitNdpa ==
    /\ ndpa_pts \in NdpaPoints
    /\ level \in 0..MaxLevel
    /\ wsi_params \in WsiParams
    /\ nret = [kind |-> "", val |-> <<>>, msg |-> ""]
    /\ IdleExplorer /\ IdleGeom /\ IdleClip /\ IdleMask /\ IdleMore

call_ndpa2xy ==
    /\ nret.kind = ""
    /\ nret' = ndpa2xy(ndpa_pts, level, wsi_params)
    /\ UNCHANGED <<ndpa_pts, level, wsi_params>>
    /\ UNCHANGED <<varsExplorer, varsGeom, varsClip, varsMask, varsMore>>

NextNdpa == call_ndpa2xy

SpecNdpa == InitNdpa /\ [][NextNdpa]_vars

\* (x - offset) / (1000 * mpp) + size / 2 is at most -d, the coordinate at
\* most -1
BelowZero(x, offset, mpp, size, lvl) ==
    (x - offset) * mpp.den + (size \div 2) * 1000 * mpp.num
        <= -(1000 * mpp.num * pow2(lvl))

SomeNegative ==
    \E i \in 1..Len(ndpa_pts) :
        \/ BelowZero(ndpa_pts[i][1], wsi_params.x_offset, wsi_params.x_mpp,
                     wsi_params.levels[0].x_size, level)
        \/ BelowZero(ndpa_pts[i][2], wsi_params.y_offset, wsi_params.y_mpp,
                     wsi_params.levels[0].y_size, level)

(***************************************************************************)
(* C20: ndpa2xy raises an Error and returns no coordinates when the vendor *)
(* is not 'hamamatsu', else when the level exceeds level_count, else when  *)
(* a converted coordinate is negative, the checks being made in this       *)
(* order; every coordinate it returns is >= 0.                             *)
(***************************************************************************)
C20_ErrorsInOrder ==
    nret.kind # "" =>
        /\ wsi_params.vendor # "hamamatsu" =>
              nret.kind = "Error" /\ nret.msg = "vendor mismatch"
        /\ (wsi_params.vendor = "hamamatsu" /\ level > wsi_params.level_count) =>
              nret.kind = "Error" /\ nret.msg = "level out of bounds"
        /\ (/\ wsi_params.vendor = "hamamatsu"
            /\ level <= wsi_params.level_count
            /\ SomeNegative) =>
              nret.kind = "Error" /\ nret.msg = "negative coordinates"
        /\ nret.kind = "Error" => nret.val = <<>>
        /\ nret.kind = "return" =>
              /\ Len(nret.val) = Len(ndpa_pts)
              /\ \A i \in 1..Len(nret.val) : nret.val[i][1] >= 0 /\ nret.val[i][2] >= 0

C20_Witness ==
    /\ nret.kind = "Error" /\ nret.msg = "vendor mismatch"
    /\ level > wsi_params.level_count
    /\ SomeNegative

\* the axes of a call: the coordinate, offset, mpp and level-0 extent of each
Axes(i) ==
    {[x |-> ndpa_pts[i][1], offset |-> wsi_params.x_offset,
      mpp |-> wsi_params.x_mpp, size |-> wsi_params.levels[0].x_size,
      out |-> IF nret.kind = "return" THEN nret.val[i][1] ELSE 0],
     [x |-> ndpa_pts[i][2], offset |-> wsi_params.y_offset,
      mpp |-> wsi_params.y_mpp, size |-> wsi_params.levels[0].y_size,
      out |-> IF nret.kind = "return" THEN nret.val[i][2] ELSE 0]}

(***************************************************************************)
(* C21 as stated (fails): a returned coordinate, multiplied by 2^level, is *)
(* floor((physical - offset) / (1000 * mpp) + level0_extent / 2).          *)
(***************************************************************************)
C21_Original ==
    nret.kind = "return" =>
        \A i \in 1..Len(ndpa_pts) : \A a \in Axes(i) :
            a.out * pow2(level) =
                (2 * (a.x - a.offset) * a.mpp.den + a.size * 1000 * a.mpp.num)
                    \div (2 * 1000 * a.mpp.num)

(***************************************************************************)
(* C21 (amended): with q = ((physical - offset) / (1000 * mpp) +           *)
(* level0_extent div 2) / 2^level, ndpa2xy with the right vendor and a     *)
(* level <= level_count returns exactly when q > -1 on every axis, and the *)
(* returned coordinate is q without its fractional part: floor(q) for      *)
(* q >= 0 and 0 for -1 < q < 0.  q = num / den below.                      *)
(***************************************************************************)
C21_Conversion ==
    (/\ nret.kind # ""
     /\ wsi_params.vendor = "hamamatsu" /\ level <= wsi_params.level_count) =>
        LET den(a) == 1000 * a.mpp.num * pow2(level)
            num(a) == (a.x - a.offset) * a.mpp.den
                          + (a.size \div 2) * 1000 * a.mpp.num
        IN  /\ nret.kind = "return" <=>
                  \A i \in 1..Len(ndpa_pts) : \A a \in Axes(i) : num(a) > -den(a)
            /\ nret.kind = "return" =>
                  \A i \in 1..Len(ndpa_pts) : \A a \in Axes(i) :
                      IF num(a) >= 0
                      THEN a.out * den(a) <= num(a) /\ num(a) < (a.out + 1) * den(a)
                      ELSE a.out = 0

C21_Witness ==
    /\ nret.kind = "return" /\ level >= 1
    /\ \E i \in 1..Len(ndpa_pts) :
          /\ ndpa_pts[i][2] = -125 /\ wsi_params.levels[0].y_size = 3
          /\ nret.val[i][2] = 0
          /\ nret.val[i][1] >= 1

(***************************************************************************)
(* C30 (fails on the code): whenever ndpa2xy returns coordinates the level *)
(* is an existing level of the pyramid, 0 <= level < level_count, and a    *)
(* request for level = level_count ends with the level error.              *)
(***************************************************************************)
C30_LevelExists ==
    /\ nret.kind = "return" => level \in DOMAIN wsi_params.levels
    /\ (/\ nret.kind # "" /\ wsi_params.vendor = "hamamatsu"
        /\ level = wsi_params.level_count) =>
          nret.kind = "Error" /\ nret.msg = "level out of bounds"

(***************************************************************************)
(* C25: for steps >= 1 the corner sequence is the product of the x-range   *)
(* x0, x0 + sx, ... up to image_width - w (nx values) and the y-range y0,  *)
(* y0 + sy, ... up to image_height - h (ny values) in row-major order:     *)
(* index k = j * nx + i holds (x0 + i * sx, y0 + j * sy).                  *)
(***************************************************************************)
nx == ((img_w - w_size[1] - start[1]) \div step[1]) + 1
ny == ((img_h - w_size[2] - start[2]) \div step[2]) + 1

C25_RowMajorCorners ==
    (constructed /\ PositiveStep) =>
        /\ total_steps = nx * ny
        /\ \A i \in 0..(nx - 1), j \in 0..(ny - 1) :
              top_left_corners[j * nx + i + 1] =
                 <<start[1] + i * step[1], start[2] + j * step[2]>>
        /\ \A n \in 1..(total_steps - 1) :
              \/ /\ top_left_corners[n + 1][1] = top_left_corners[n][1] + step[1]
                 /\ top_left_corners[n + 1][2] = top_left_corners[n][2]
              \/ /\ top_left_corners[n][1] = start[1] + (nx - 1) * step[1]
                 /\ top_left_corners[n + 1][1] = start[1]
                 /\ top_left_corners[n + 1][2] = top_left_corners[n][2] + step[2]

C25_Witness ==
    /\ constructed /\ PositiveStep
    /\ nx >= 2 /\ ny >= 2 /\ nx # ny
    /\ anchor = "init" /\ calls = nx + 1
    /\ ret.op = "next" /\ ret.kind = "window"
    /\ ret.val[1] = start[1] /\ ret.val[2] = start[2] + step[2]

(***************************************************************************)
(* C28: for a constructed explorer with start >= 0 and step >= 1, every    *)
(* window (x0, y0, x1, y1) returned by here(), next(), prev() or last()    *)
(* has the configured size and lies inside the image; the clipping in      *)
(* here() never shortens it.                                               *)
(***************************************************************************)
C28_WindowSize ==
    (/\ constructed /\ PositiveStep
     /\ ret.op \in {"here", "next", "prev", "last"} /\ ret.kind = "window") =>
        /\ ret.val[3] - ret.val[1] = w_size[1]
        /\ ret.val[4] - ret.val[2] = w_size[2]
        /\ 0 <= ret.val[1] /\ ret.val[3] <= img_w
        /\ 0 <= ret.val[2] /\ ret.val[4] <= img_h

C28_Witness ==
    /\ constructed /\ PositiveStep /\ total_steps >= 2
    /\ ret.op = "last" /\ ret.kind = "window"
    /\ ret.val[3] = img_w /\ ret.val[4] = img_h
    /\ ret.val[1] > 0 /\ w_size[1] # w_size[2]

\* P and the ROI rectangle share a cell
MeetsRoi(P, xy) ==
    cells_of(rect_polygon(<<xy[1], xy[2]>>, <<xy[3], xy[4]>>)) \cap cells_of(P) # {}

(***************************************************************************)
(* C26 (fails on the code): for a polygon that does not contain the ROI    *)
(* the operand handed to the intersection routine is the rectangle polygon *)
(* of the ROI, with its four corners, and the clip of a tile partly        *)
(* covered by a simple polygon does not end with the size-mismatch Error.  *)
(***************************************************************************)
C26_RoiOperandIsRectangle ==
    (/\ cret.kind # "" /\ Len(ann) = 1
     /\ polygon_is_simple(ann[1])
     /\ MeetsRoi(ann[1], roi) /\ ~CoversRoi(ann[1], roi)) =>
        /\ roi_operand(roi) = rect_polygon(<<roi[1], roi[2]>>, <<roi[3], roi[4]>>)
        /\ Len(roi_operand(roi)) >= 3
        /\ cret.kind = "return"

(***************************************************************************)
(*            ANNOTATION OBJECTS  (qpath2/annot/core.py)                   *)
(*                                                                         *)
(* The array xy of an object is the sequence of its points <<x, y>>.  An   *)
(* optional argument is <<>> for None and <<v>> for the value v.           *)
(***************************************************************************)
\* PointSet.__init__(x, y): np.array(zip(x, y)) when y is given, else the
\* first two columns of np.array(x)
PointSet_init(x, y) ==
    IF y # <<>>
    THEN [i \in 1..min(Len(x), Len(y)) |-> <<x[i], y[i]>>]
    ELSE [i \in 1..Len(x) |-> <<x[i][1], x[i][2]>>]

\* faulty variant: the contour is left as it is given
Polygon_open(x, y) == PointSet_init(x, y)

\* Polygon.__init__(x, y): the first point is appended unless it equals the last
Polygon_init(x, y) ==
    LET pts == PointSet_init(x, y)
    IN  IF pts[1] # pts[Len(pts)] THEN pts \o <<pts[1]>> ELSE pts

\* self.xy += np.array([x_off, y_off])
AnnotationObject_translate(pts, x_off, y_off) ==
    LET dy == IF y_off = <<>> THEN x_off ELSE y_off[1]
    IN  [i \in 1..Len(pts) |-> <<pts[i][1] + x_off, pts[i][2] + dy>>]

\* self.xy *= np.array([x_scale, y_scale])
AnnotationObject_scale(pts, x_scale, y_scale) ==
    LET sy == IF y_scale = <<>> THEN x_scale ELSE y_scale[1]
    IN  [i \in 1..Len(pts) |-> <<pts[i][1] * x_scale, pts[i][2] * sy>>]

\* qx, qy are computed from the old columns, then stored; M is 2 x 3
AnnotationObject_affine(pts, M) ==
    [i \in 1..Len(pts) |->
        <<pts[i][1] * M[1][1] + pts[i][2] * M[1][2] + M[1][3],
          pts[i][1] * M[2][1] + pts[i][2] * M[2][2] + M[2][3]>>]

\* a polygon is built from at most MaxPts points
MaxPts == 3
\* at most MaxOps transforms are applied to an object
MaxOps == 2
InputPoints == (0..1) \X (0..1)
InputSeqs == UNION {[1..n -> InputPoints] : n \in 1..MaxPts}
Offsets == {-1, 2}
Scales == {0, 2}
Matrices == {<<<<0, -1, 0>>, <<1, 0, 0>>>>, <<<<1, 1, 0>>, <<0, 1, 1>>>>}
\* Polygon(points) or Polygon(xs, ys)
InitAnnot ==
    /\ pts_in \in InputSeqs
    /\ \E form \in {"points", "x, y"} :
          /\ aret = [op |-> "Polygon", form |-> form, n |-> 0]
          /\ self_xy = IF form = "points"
                       THEN Polygon_init(pts_in, <<>>)
                       ELSE Polygon_init([i \in 1..Len(pts_in) |-> pts_in[i][1]],
                                         [i \in 1..Len(pts_in) |-> pts_in[i][2]])
    /\ IdleExplorer /\ IdleGeom /\ IdleClip /\ IdleMask /\ IdleNdpa
    /\ IdleRegion /\ IdleWorkers

AnnotFrame ==
    UNCHANGED <<pts_in, varsExplorer, varsGeom, varsClip, varsMask, varsNdpa,
                varsRegion, varsWorkers>>

call_translate ==
    /\ \E x_off \in Offsets, y_off \in {<<>>} \cup {<<v>> : v \in Offsets} :
          self_xy' = AnnotationObject_translate(self_xy, x_off, y_off)
    /\ aret.n < MaxOps
    /\ aret' = [op |-> "translate", form |-> "", n |-> aret.n + 1]
    /\ AnnotFrame

call_scale ==
    /\ \E x_scale \in Scales, y_scale \in {<<>>} \cup {<<v>> : v \in Scales} :
          self_xy' = AnnotationObject_scale(self_xy, x_scale, y_scale)
    /\ aret.n < MaxOps
    /\ aret' = [op |-> "scale", form |-> "", n |-> aret.n + 1]
    /\ AnnotFrame

call_affine ==
    /\ \E M \in Matrices :
          self_xy' = AnnotationObject_affine(self_xy, M)
    /\ aret.n < MaxOps
    /\ aret' = [op |-> "affine", form |-> "", n |-> aret.n + 1]
    /\ AnnotFrame

NextAnnot == call_translate \/ call_scale \/ call_affine

SpecAnnot == InitAnnot /\ [][NextAnnot]_vars

IsClosed(pts) == pts[1] = pts[Len(pts)]

(***************************************************************************)
(* C23: a Polygon is closed (first point = last point) right after its     *)
(* construction from a non-empty point sequence and after any sequence of  *)
(* translate, scale and affine; a sequence given closed gets no second     *)
(* closing vertex (the object has the given points, plus the first one     *)
(* only when they were not closed).                                        *)
(***************************************************************************)
C23_PolygonClosed ==
    /\ self_xy # <<>>
    /\ IsClosed(self_xy)
    /\ Len(self_xy) = Len(pts_in) + (IF IsClosed(pts_in) THEN 0 ELSE 1)
    /\ aret.op = "Polygon" =>
          self_xy = IF IsClosed(pts_in) THEN pts_in ELSE pts_in \o <<pts_in[1]>>

C23_Witness ==
    /\ aret.op = "affine"
    /\ Len(pts_in) = 3 /\ ~IsClosed(pts_in)
    /\ Len(self_xy) = 4
    /\ self_xy[1] # pts_in[1]
    /\ \E i, j \in 1..3 : i # j /\ self_xy[i] # self_xy[j]

(***************************************************************************)
(*   POLY_ANNOT_SET_OUTSIDE, POLY_ANNOT_COPY_REGION  (annot/operators.py)  *)
(*                                                                         *)
(* The outcome of a call: kind, msg, the vertex sequence given to          *)
(* skimage.draw.polygon (drawn) and the array returned or written (val).   *)
(***************************************************************************)
\* poly_line = np.concatenate((poly, [poly[0,]])), when poly is not closed
closed_line(poly_xy) == poly_xy \o <<poly_xy[1]>>

\* polygon(poly[:, 1], poly[:, 0], ...): poly is drawn, poly_line is not used
operators_line(poly_xy) == poly_xy

\* res = np.full(img.shape, value); res[r, chn] = img[r, chn] in every channel
poly_annot_set_outside(img, poly_xy, value) ==
    LET rc == draw_polygon(operators_line(poly_xy), img.shape)
    IN  [kind |-> "return", msg |-> "", drawn |-> operators_line(poly_xy),
         val |-> [img EXCEPT !.ch =
                    [chn \in DOMAIN img.ch |->
                        [i \in DOMAIN img.ch[chn] |->
                            IF i \in rc THEN img.ch[chn][i]
                                        ELSE value % PixelModulus]]]]

\* faulty variant: the whole of src is copied
poly_annot_copy_region_all(s, d, poly_xy) ==
    IF s.shape # d.shape
    THEN [kind |-> "Error", msg |-> "source and destination shapes differ",
          drawn |-> <<>>, val |-> d]
    ELSE [kind |-> "None", msg |-> "", drawn |-> operators_line(poly_xy), val |-> s]

\* poly_annot_copy_region(src, dst, poly): val is dst after the call
poly_annot_copy_region(s, d, poly_xy) ==
    IF s.shape # d.shape
    THEN [kind |-> "Error", msg |-> "source and destination shapes differ",
          drawn |-> <<>>, val |-> d]
    ELSE LET rc == draw_polygon(operators_line(poly_xy), s.shape)
         IN  [kind |-> "None", msg |-> "", drawn |-> operators_line(poly_xy),
              val |-> [d EXCEPT !.ch =
                         [chn \in DOMAIN d.ch |->
                             [i \in DOMAIN d.ch[chn] |->
                                 IF i \in rc THEN s.ch[chn][i] ELSE d.ch[chn][i]]]]]

\* a numpy array of the given shape, 2-D or with NumChannels channels
np_buffer(shape, nd, seed) ==
    [vigra |-> FALSE, ndim |-> nd,
     shape |-> IF nd = 2 THEN shape ELSE shape \o <<NumChannels>>,
     ch |-> [chn \in 1..(IF nd = 2 THEN 1 ELSE NumChannels) |->
                [i \in Idx(shape) |-> pixel(seed, i, chn)]]]

RegionBuffers ==
    {np_buffer(sh, nd, seed) :
        sh \in {MaskShape, <<3, 2>>}, nd \in 2..3, seed \in Seeds}

InitRegion ==
    /\ src \in RegionBuffers
    /\ dst \in RegionBuffers
    /\ rpoly \in RegionPolygons \cup {closed_line(Corner)}
    /\ rret = [op |-> "", kind |-> "", msg |-> "", drawn |-> <<>>, val |-> <<>>]
    /\ IdleExplorer /\ IdleGeom /\ IdleClip /\ IdleMask /\ IdleNdpa
    /\ IdleAnnot /\ IdleWorkers

RegionFrame ==
    UNCHANGED <<src, rpoly, varsExplorer, varsGeom, varsClip, varsMask, varsNdpa,
                varsAnnot, varsWorkers>>

call_poly_annot_copy_region ==
    /\ LET out == poly_annot_copy_region(src, dst, rpoly)
       IN  /\ dst' = out.val
           /\ rret' = [op |-> "poly_annot_copy_region", kind |-> out.kind,
                       msg |-> out.msg, drawn |-> out.drawn, val |-> <<>>]
    /\ RegionFrame

\* poly_annot_set_outside(src, rpoly, value)
call_poly_annot_set_outside ==
    /\ \E value \in OutsideValues :
          LET out == poly_annot_set_outside(src, rpoly, value)
          IN  rret' = [op |-> "poly_annot_set_outside", kind |-> out.kind,
                       msg |-> out.msg, drawn |-> out.drawn, val |-> out.val]
    /\ UNCHANGED dst
    /\ RegionFrame

\* masked_points(rpoly, src.shape)
call_masked_points ==
    /\ rret' = [op |-> "masked_points", kind |-> "return", msg |-> "",
                drawn |-> masked_points_line(rpoly),
                val |-> masked_points(rpoly, src.shape)]
    /\ UNCHANGED dst
    /\ RegionFrame

NextRegion ==
    \/ call_poly_annot_copy_region
    \/ call_poly_annot_set_outside
    \/ call_masked_points

SpecRegion == InitRegion /\ [][NextRegion]_vars

(***************************************************************************)
(* C22: poly_annot_copy_region(src, dst, poly) raises an Error and leaves  *)
(* dst unchanged when the shapes of src and dst differ; otherwise dst      *)
(* equals src at every pixel of the rasterised polygon afterwards and is   *)
(* unchanged at every other pixel; src is unchanged.                       *)
(***************************************************************************)
C22_CopyRegion ==
    [][rret'.op = "poly_annot_copy_region" =>
          /\ src' = src
          /\ IF src.shape # dst.shape
             THEN rret'.kind = "Error" /\ dst' = dst
             ELSE /\ rret'.kind = "None"
                  /\ dst'.shape = dst.shape
                  /\ \A chn \in DOMAIN dst.ch : \A i \in DOMAIN dst.ch[chn] :
                        dst'.ch[chn][i] =
                           IF i \in draw_polygon(rpoly, <<dst.shape[1], dst.shape[2]>>)
                           THEN src.ch[chn][i] ELSE dst.ch[chn][i]
      ]_vars

C22_Witness ==
    /\ rret.op = "poly_annot_copy_region" /\ rret.kind = "None"
    /\ src.ndim = 3 /\ rpoly = Corner
    /\ \E i, j \in DOMAIN dst.ch[2] :
          /\ i \in draw_polygon(rpoly, src.shape) /\ dst.ch[2][i] = src.ch[2][i]
          /\ j \notin draw_polygon(rpoly, src.shape) /\ dst.ch[2][j] # src.ch[2][j]

(***************************************************************************)
(* C27 (fails on the code): in masked_points, poly_annot_set_outside and   *)
(* poly_annot_copy_region, when the first and the last vertex of the       *)
(* polygon differ, the vertex sequence given to the rasteriser is the      *)
(* polygon with its first vertex appended.                                 *)
(***************************************************************************)
C27_ClosedBeforeRasterising ==
    (/\ rret.op \in {"masked_points", "poly_annot_set_outside",
                     "poly_annot_copy_region"}
     /\ rret.kind # "Error"
     /\ rpoly[1] # rpoly[Len(rpoly)]) =>
        rret.drawn = rpoly \o <<rpoly[1]>>

(***************************************************************************)
(*   TWO RUNS OF POLY_ANNOT_INSIDE ON ONE ANNOTATION MAPPING               *)
(*                                                                         *)
(* shared_ann is the mapping ann both runs were given.  workers[n] is the  *)
(* run n: its position pc, its roi, the operand r, its buffer img (made    *)
(* from seed) and, once the run is over, how it ended (kind, msg).         *)
(***************************************************************************)
Runs == 1..2

\* x0, y0, x1, y1 = roi; r = np.array([[x0, y0], [x1, y1]])
run_start(ws, n) == [ws EXCEPT ![n].pc = "mask", ![n].r = roi_operand(ws[n].roi)]

\* roi_mask = vigra.VigraArray(...): the NameError ends the run n, with its
\* buffer and the other run as they are
run_mask(ws, n) ==
    LET m == roi_mask(ws[n].img)
    IN  [ws EXCEPT ![n].pc = "done", ![n].kind = m.kind, ![n].msg = m.msg]

WorkerRois == {<<1, 1, 2, 2>>, <<0, 0, 2, 2>>, <<2, 1, 4, 3>>, <<3, 3, 5, 5>>}

new_run(xy, seed, value) ==
    [pc |-> "start", roi |-> xy, r |-> <<>>, seed |-> seed, value |-> value,
     img |-> tile_of(xy, seed), kind |-> "", msg |-> ""]

InitWorkers ==
    /\ shared_ann \in {s \in Annotations : \A i, j \in 1..Len(s) : i # j => s[i] # s[j]}
    /\ \E xy1 \in WorkerRois, xy2 \in WorkerRois, value \in OutsideValues :
          /\ xy1 # xy2
          /\ workers = [n \in Runs |->
                              IF n = 1 THEN new_run(xy1, 0, value)
                                       ELSE new_run(xy2, 200, value)]
    /\ IdleExplorer /\ IdleGeom /\ IdleClip /\ IdleMask /\ IdleNdpa
    /\ IdleAnnot /\ IdleRegion

WorkersFrame ==
    UNCHANGED <<shared_ann, varsExplorer, varsGeom, varsClip, varsMask, varsNdpa,
                varsAnnot, varsRegion>>

w_start(n) ==
    /\ workers[n].pc = "start"
    /\ workers' = run_start(workers, n)
    /\ WorkersFrame

w_mask(n) ==
    /\ workers[n].pc = "mask"
    /\ workers' = run_mask(workers, n)
    /\ WorkersFrame

NextWorkers ==
    \E n \in Runs : w_start(n) \/ w_mask(n)

SpecWorkers == InitWorkers /\ [][NextWorkers]_vars

=============================================================================
